---------------------------- MODULE Spec2Model ----------------------------
(***************************************************************************)
(* Deployment risk decision engine of ai-models:                           *)
(*   training/train_quality_model.py  QualityPredictor                     *)
(*   training/train_anomaly_model.py  AnomalyDetector                      *)
(*   serving/model_server.py          the three /predict routes            *)
(*                                                                         *)
(* Numbers are exact fixed-point integers:                                 *)
(*   test_pass_rate, code_coverage   hundredths      (0.95  -> 95)         *)
(*   security_vulnerabilities        count                                 *)
(*   code_complexity                 tenths          (3.5   -> 35)         *)
(*   lines_of_code                   count                                 *)
(*   deployment_frequency            tenths          (15.0  -> 150)        *)
(*   risk_score                      hundredths      (5.25  -> 525)        *)
(*   quality_score                   ten-thousandths (0.8525 -> 8525)      *)
(*   probabilities, anomaly scores   units of 10^-5  (0.85  -> 85000)      *)
(* A returned score is the code's double rounded to that unit; where the    *)
(* code compares a computed double with a threshold, the model compares the *)
(* same double (IEEE 754 binary64, round to nearest even).                 *)
(* Python's None is the empty tuple, a present value v is <<v>>.           *)
(***************************************************************************)
EXTENDS Integers, Sequences, FiniteSets

None == <<>>
Some(v) == <<v>>

Min(a, b) == IF a <= b THEN a ELSE b
Max(a, b) == IF a >= b THEN a ELSE b
\* np.clip(x, lo, hi)
Clip(x, lo, hi) == Min(Max(x, lo), hi)

(***************************************************************************)
(* Python floats.  A natural number is a sequence of 12-bit limbs, least   *)
(* significant first, with no zero limb at the top; a double is a sign and *)
(* the magnitude in units of 2^-84, which holds every double met here      *)
(* exactly.                                                                *)
(***************************************************************************)
Base == 2 ^ 12
LimbBits == 3 * 4
ScaleLimbs == 3 + 4
GuardLimbs == 2 + 3
Mantissa == 50 + 3

Limb(a, i) == IF i >= 1 /\ i <= Len(a) THEN a[i] ELSE 0

RECURSIVE Norm(_)
Norm(a) ==
    IF a = <<>> THEN a
    ELSE IF a[Len(a)] = 0 THEN Norm(SubSeq(a, 1, Len(a) - 1))
    ELSE a

RECURSIVE FromInt(_)
FromInt(n) == IF n = 0 THEN <<>> ELSE <<n % Base>> \o FromInt(n \div Base)

Zeros(k) == [i \in 1..k |-> 0]

\* a * Base^k, and a \div Base^k
ShiftLimbs(a, k) == IF a = <<>> THEN a ELSE Zeros(k) \o a
DropLimbs(a, k) == SubSeq(a, k + 1, Len(a))

RECURSIVE AddC(_, _, _, _)
AddC(a, b, i, c) ==
    IF i > Max(Len(a), Len(b))
    THEN IF c = 0 THEN <<>> ELSE <<c>>
    ELSE LET t == Limb(a, i) + Limb(b, i) + c
         IN  <<t % Base>> \o AddC(a, b, i + 1, t \div Base)

BAdd(a, b) == AddC(a, b, 1, 0)

RECURSIVE SubC(_, _, _, _)
SubC(a, b, i, c) ==
    IF i > Len(a) THEN <<>>
    ELSE LET t == Limb(a, i) - Limb(b, i) - c
         IN  <<IF t < 0 THEN t + Base ELSE t>>
             \o SubC(a, b, i + 1, IF t < 0 THEN 1 ELSE 0)

\* a - b for a >= b
BSub(a, b) == Norm(SubC(a, b, 1, 0))

RECURSIVE CmpAt(_, _, _)
CmpAt(a, b, i) ==
    IF i = 0 THEN 0
    ELSE IF a[i] # b[i] THEN (IF a[i] > b[i] THEN 1 ELSE -1)
    ELSE CmpAt(a, b, i - 1)

\* -1, 0, 1 as a < b, a = b, a > b
BCmp(a, b) ==
    IF Len(a) # Len(b) THEN (IF Len(a) > Len(b) THEN 1 ELSE -1)
    ELSE CmpAt(a, b, Len(a))

RECURSIVE ColSum(_, _, _, _)
ColSum(a, b, k, i) ==
    IF i > Len(a) \/ i > k THEN 0
    ELSE a[i] * Limb(b, k + 1 - i) + ColSum(a, b, k, i + 1)

RECURSIVE MulC(_, _, _, _)
MulC(a, b, k, c) ==
    IF k > Len(a) + Len(b) THEN <<>>
    ELSE LET t == ColSum(a, b, k, 1) + c
         IN  <<t % Base>> \o MulC(a, b, k + 1, t \div Base)

BMul(a, b) == Norm(MulC(a, b, 1, 0))

RECURSIVE DivAt(_, _, _, _)
DivAt(a, d, i, r) ==
    IF i = 0 THEN <<>>
    ELSE LET cur == r * Base + a[i]
         IN  DivAt(a, d, i - 1, cur % d) \o <<cur \div d>>

RECURSIVE ModAt(_, _, _, _)
ModAt(a, d, i, r) ==
    IF i = 0 THEN r ELSE ModAt(a, d, i - 1, (r * Base + a[i]) % d)

\* quotient and remainder by a small divisor
BDivSmall(a, d) == Norm(DivAt(a, d, Len(a), 0))
BModSmall(a, d) == ModAt(a, d, Len(a), 0)

RECURSIVE BitLenSmall(_)
BitLenSmall(n) == IF n = 0 THEN 0 ELSE 1 + BitLenSmall(n \div 2)

BitLen(a) ==
    IF a = <<>> THEN 0 ELSE LimbBits * (Len(a) - 1) + BitLenSmall(a[Len(a)])

BPow2(k) == Zeros(k \div LimbBits) \o <<2 ^ (k % LimbBits)>>

BDivPow2(a, k) ==
    LET w == k \div LimbBits
        b == k % LimbBits
        n == Len(a) - w
    IN  IF n <= 0 THEN <<>>
        ELSE Norm([i \in 1..n |->
                    (Limb(a, i + w) \div (2 ^ b))
                    + (Limb(a, i + w + 1) % (2 ^ b)) * (2 ^ (LimbBits - b))])

BModPow2(a, k) ==
    LET w == k \div LimbBits
        b == k % LimbBits
    IN  Norm([i \in 1..(w + 1) |->
                IF i <= w THEN Limb(a, i) ELSE Limb(a, i) % (2 ^ b)])

\* q rounded to 53 significant bits, ties to even; sticky: bits were lost
\* below q
RoundSig(q, sticky) ==
    LET len == BitLen(q)
    IN  IF len <= Mantissa THEN q
        ELSE LET d == len - Mantissa
                 top == BDivPow2(q, d)
                 low == BModPow2(q, d)
                 c == BCmp(low, BPow2(d - 1))
                 up == c = 1 \/ (c = 0 /\ (sticky \/ Limb(top, 1) % 2 = 1))
             IN  BMul(IF up THEN BAdd(top, <<1>>) ELSE top, BPow2(d))

DZero == [neg |-> FALSE, mag |-> <<>>]
DSigned(neg, mag) == [neg |-> neg /\ mag # <<>>, mag |-> mag]
DNeg(x) == DSigned(~ x.neg, x.mag)

\* float(n) for an int n
DFromInt(n) ==
    DSigned(n < 0, ShiftLimbs(FromInt(IF n < 0 THEN 0 - n ELSE n), ScaleLimbs))

\* x / d for a double x and d = 10.0 or 100.0
DDiv(x, d) ==
    IF x.mag = <<>> THEN DZero
    ELSE LET a == ShiftLimbs(x.mag, GuardLimbs)
             r == RoundSig(BDivSmall(a, d), BModSmall(a, d) # 0)
         IN  DSigned(x.neg, DropLimbs(r, GuardLimbs))

\* the double a decimal literal or JSON number n/den denotes
DFromDecimal(n, den) == DDiv(DFromInt(n), den)

\* x * y
DMul(x, y) ==
    IF x.mag = <<>> \/ y.mag = <<>> THEN DZero
    ELSE DSigned(x.neg # y.neg,
                 DropLimbs(RoundSig(BMul(x.mag, y.mag), FALSE), ScaleLimbs))

\* x + y
DAdd(x, y) ==
    IF x.neg = y.neg
    THEN DSigned(x.neg, RoundSig(BAdd(x.mag, y.mag), FALSE))
    ELSE IF BCmp(x.mag, y.mag) >= 0
    THEN DSigned(x.neg, RoundSig(BSub(x.mag, y.mag), FALSE))
    ELSE DSigned(y.neg, RoundSig(BSub(y.mag, x.mag), FALSE))

\* -1, 0, 1 as x < y, x = y, x > y
DCmp(x, y) ==
    IF x.neg # y.neg THEN (IF x.neg THEN -1 ELSE 1)
    ELSE IF x.neg THEN BCmp(y.mag, x.mag)
    ELSE BCmp(x.mag, y.mag)

DMin(x, y) == IF DCmp(x, y) <= 0 THEN x ELSE y
DMax(x, y) == IF DCmp(x, y) >= 0 THEN x ELSE y

(***************************************************************************)
(* Bounds of the inputs.                                                   *)
(***************************************************************************)
\* largest security_vulnerabilities count offered (above the cap of 10)
MaxVuln == 11

TprValues == {55, 70, 90, 95}
VulnValues == {1, 9, 10, MaxVuln}
RiskValues == {-4000, 4000, 5500, 12000}

\* success probabilities the quality classifier may return
QualityProbas == {0, 69999, 70000, 84999, 85000, 100000}
\* positive-class probabilities the anomaly classifier may return
AnomalyProbas == {0, 50000, 50001, 60000, 60001, 80000, 80001}

Opt(S) == {None} \cup {Some(v) : v \in S}

\* the dict with exactly the keys whose optional value is present
MkRecord(t, c, s, x, l, d, r) ==
    LET cols == << <<"test_pass_rate", t>>, <<"code_coverage", c>>,
                   <<"security_vulnerabilities", s>>, <<"code_complexity", x>>,
                   <<"lines_of_code", l>>, <<"deployment_frequency", d>>,
                   <<"risk_score", r>> >>
        present == {i \in 1..7 : cols[i][2] # None}
    IN  [k \in {cols[i][1] : i \in present} |->
            cols[CHOOSE i \in present : cols[i][1] = k][2][1]]

\* presence patterns of the four fields the fallback never reads: all
\* present, one the derived scores need missing, one only the feature list
\* needs missing, or all missing
OtherFields ==
    LET c == Some(85)  x == Some(35)  l == Some(2500)  d == Some(150)
    IN  { <<c, x, l, d>>, <<None, x, l, d>>, <<c, x, None, d>>,
          <<None, None, None, None>> }

\* sample_deployment of train_quality_model.py
SampleDeployment ==
    MkRecord(Some(95), Some(85), Some(1), Some(35), Some(2500), Some(150), None)

\* the metric records (JSON objects) a caller may post
Records ==
    { MkRecord(t, o[1], s, o[2], o[3], o[4], r) :
        t \in Opt(TprValues), s \in Opt(VulnValues),
        r \in Opt(RiskValues), o \in OtherFields }

Has(f, k) == k \in DOMAIN f

(***************************************************************************)
(* QualityPredictor (training/train_quality_model.py)                      *)
(***************************************************************************)
FEATURE_COLUMNS ==
    << "test_pass_rate", "code_coverage", "security_vulnerabilities",
       "code_complexity", "lines_of_code", "deployment_frequency",
       "quality_score", "risk_score" >>

ColumnSet(cols) == {cols[i] : i \in 1..Len(cols)}

\* slip: the vulnerability term not inverted
QualityScoreVulnNotInverted(df) ==
      30 * df["test_pass_rate"]
    + 25 * df["code_coverage"]
    + 250 * Min(df["security_vulnerabilities"], 10)
    + 20 * (100 - df["code_complexity"])

\* df['quality_score'], in ten-thousandths
QualityScore(df) ==
      30 * df["test_pass_rate"]
    + 25 * df["code_coverage"]
    + 250 * (10 - Min(df["security_vulnerabilities"], 10))
    + 20 * (100 - df["code_complexity"])

\* df['risk_score'], in hundredths
RiskScore(df) ==
      40 * df["security_vulnerabilities"]
    + 30 * (100 - df["test_pass_rate"])
    + 20 * (100 - df["code_coverage"])
    + df["code_complexity"]

\* df with the two derived columns assigned (an existing risk_score column is
\* overwritten)
WithDerived(df) ==
    [k \in DOMAIN df \cup {"quality_score", "risk_score"} |->
        IF k = "quality_score" THEN QualityScore(df)
        ELSE IF k = "risk_score" THEN RiskScore(df)
        ELSE df[k]]

\* df[cols]: KeyError unless every column is there
Select(df, cols) ==
    IF ColumnSet(cols) \subseteq DOMAIN df
    THEN Some([k \in ColumnSet(cols) |-> df[k]])
    ELSE None

\* prepare_features(df) on an object whose feature_columns is self_cols:
\* the exception raised, self.feature_columns afterwards, and X
PrepareFeatures(self_cols, df) ==
    IF ~ ({"test_pass_rate", "code_coverage", "security_vulnerabilities",
           "code_complexity"} \subseteq DOMAIN df)
    THEN [raised |-> "KeyError", feature_columns |-> self_cols, X |-> None]
    ELSE LET X == Select(WithDerived(df), FEATURE_COLUMNS)
         IN  [raised |-> IF X = None THEN "KeyError" ELSE "none",
              feature_columns |-> Some(FEATURE_COLUMNS),
              X |-> X]

\* slip: strict comparisons at the tier boundaries
GetRecommendationStrict(prob) ==
    IF prob > 85000 THEN "AUTO_DEPLOY"
    ELSE IF prob > 70000 THEN "MANUAL_APPROVAL"
    ELSE "BLOCK_DEPLOYMENT"

\* _get_recommendation(prob)
GetRecommendation(prob) ==
    IF prob >= 85000 THEN "AUTO_DEPLOY"
    ELSE IF prob >= 70000 THEN "MANUAL_APPROVAL"
    ELSE "BLOCK_DEPLOYMENT"

\* self.model: the classifier as constructed, and after fit
Unfitted == "XGBClassifier (not fitted)"
Fitted == "XGBClassifier"

\* what the fitted classifier answers for one row: model.predict(X)[0] and
\* model.predict_proba(X)[0][1]
QualityClfOutputs ==
    {[prediction |-> b, proba |-> p] : b \in {0, 1}, p \in QualityProbas}

\* placeholder when the classifier is not reached
NoAnswer == [prediction |-> 0, proba |-> 0]

QualityResult(clf) ==
    [success_prediction |-> clf.prediction,
     success_probability |-> clf.proba,
     recommendation |-> GetRecommendation(clf.proba)]

\* slip: the trained-model check made only after the features are prepared
QualityPredictLateGuard(self_model, self_cols, features, is_dict, clf) ==
    LET pf == IF is_dict
              THEN PrepareFeatures(self_cols, features)
              ELSE LET X == IF self_cols = None THEN None
                            ELSE Select(features, self_cols[1])
                   IN  [raised |-> IF X = None THEN "KeyError" ELSE "none",
                        feature_columns |-> self_cols,
                        X |-> X]
    IN  IF pf.raised # "none"
        THEN [raised |-> pf.raised, model |-> self_model,
              feature_columns |-> pf.feature_columns, X |-> None,
              result |-> None]
        ELSE IF self_model = None
        THEN [raised |-> "ValueError", model |-> self_model,
              feature_columns |-> pf.feature_columns, X |-> None,
              result |-> None]
        ELSE IF self_model = Some(Unfitted)
        THEN [raised |-> "NotFittedError", model |-> self_model,
              feature_columns |-> pf.feature_columns, X |-> pf.X,
              result |-> None]
        ELSE [raised |-> "none", model |-> self_model,
              feature_columns |-> pf.feature_columns, X |-> pf.X,
              result |-> Some(QualityResult(clf))]

\* predict(features) for a dict (is_dict) or a one-row DataFrame: the exception
\* raised, self.model and self.feature_columns afterwards, the row X given to
\* the classifier and the returned dict.  A classifier that was constructed
\* but never fitted raises in self.model.predict(X).
QualityPredict(self_model, self_cols, features, is_dict, clf) ==
    IF self_model = None
    THEN [raised |-> "ValueError", model |-> self_model,
          feature_columns |-> self_cols, X |-> None, result |-> None]
    ELSE LET pf == IF is_dict
                   THEN PrepareFeatures(self_cols, features)
                   ELSE LET X == IF self_cols = None THEN None
                                 ELSE Select(features, self_cols[1])
                        IN  [raised |-> IF X = None THEN "KeyError" ELSE "none",
                             feature_columns |-> self_cols,
                             X |-> X]
         IN  [raised |-> IF pf.raised = "none" /\ self_model = Some(Unfitted)
                         THEN "NotFittedError" ELSE pf.raised,
              model |-> self_model,
              feature_columns |-> pf.feature_columns,
              X |-> pf.X,
              result |-> IF pf.raised = "none" /\ self_model = Some(Fitted)
                         THEN Some(QualityResult(clf)) ELSE None]

(***************************************************************************)
(* AnomalyDetector (training/train_anomaly_model.py)                       *)
(***************************************************************************)
\* what self.model.predict_proba(df) does for one row: raise, or answer the
\* positive-class probability
AnomalyClfOutputs ==
    {[invoked |-> TRUE, raises |-> TRUE, proba |-> 0]}
    \cup {[invoked |-> TRUE, raises |-> FALSE, proba |-> p] : p \in AnomalyProbas}

NotInvoked == [invoked |-> FALSE, raises |-> FALSE, proba |-> 0]

\* slip: the flag and the MEDIUM threshold exchanged
ModelBackedResultSwapped(score) ==
    [is_anomaly |-> score > 60000,
     severity |-> IF score > 80000 THEN "HIGH"
                  ELSE IF score > 50000 THEN "MEDIUM"
                  ELSE "LOW",
     score |-> score]

\* the result of the model branch for the classifier's score
ModelBackedResult(score) ==
    [is_anomaly |-> score > 50000,
     severity |-> IF score > 80000 THEN "HIGH"
                  ELSE IF score > 60000 THEN "MEDIUM"
                  ELSE "LOW",
     score |-> score]

\* slip: a missing test_pass_rate read as 0 (features.get(..., 0))
RuleBasedSumDefaultPassRate(df) ==
      (IF Has(df, "security_vulnerabilities")
       THEN 6000 * Min(df["security_vulnerabilities"], 10) ELSE 0)
    + (IF Has(df, "risk_score")
       THEN 3 * Min(df["risk_score"], 10000) ELSE 0)
    + (IF Has(df, "test_pass_rate")
       THEN 100 * (100 - df["test_pass_rate"]) ELSE 100 * 100)

\* slip: the pass rate itself weighted, not the failure rate
RuleBasedSumPassRateSign(df) ==
      (IF Has(df, "security_vulnerabilities")
       THEN 6000 * Min(df["security_vulnerabilities"], 10) ELSE 0)
    + (IF Has(df, "risk_score")
       THEN 3 * Min(df["risk_score"], 10000) ELSE 0)
    + (IF Has(df, "test_pass_rate")
       THEN 100 * df["test_pass_rate"] ELSE 0)

\* the rule-based score before np.clip
RuleBasedSum(df) ==
      (IF Has(df, "security_vulnerabilities")
       THEN 6000 * Min(df["security_vulnerabilities"], 10) ELSE 0)
    + (IF Has(df, "risk_score")
       THEN 3 * Min(df["risk_score"], 10000) ELSE 0)
    + (IF Has(df, "test_pass_rate")
       THEN 100 * (100 - df["test_pass_rate"]) ELSE 0)

\* np.clip(score, 0, 1), rounded to the unit
RuleBasedScore(df) == Clip(RuleBasedSum(df), 0, 100000)

\* the float literals of the rules
DOne == DFromInt(1)
VulnWeight == DFromDecimal(6, 10)
RiskWeight == DFromDecimal(3, 10)
PassRateWeight == DFromDecimal(1, 10)
AnomalyThreshold == DFromDecimal(4, 10)
MediumThreshold == DFromDecimal(5, 10)
HighThreshold == DFromDecimal(75, 100)

\* np.clip(score, 0, 1) as the double the code holds: the three contributions
\* are computed and added in doubles, in the order of the code
RuleBasedDouble(df) ==
    LET s0 == DZero
        s1 == IF Has(df, "security_vulnerabilities")
              THEN DAdd(s0, DMul(DMin(DDiv(DFromInt(
                                     df["security_vulnerabilities"]), 10), DOne),
                                 VulnWeight))
              ELSE s0
        s2 == IF Has(df, "risk_score")
              THEN DAdd(s1, DMul(DMin(DDiv(DFromDecimal(
                                     df["risk_score"], 100), 100), DOne),
                                 RiskWeight))
              ELSE s1
        s3 == IF Has(df, "test_pass_rate")
              THEN DAdd(s2, DMul(DAdd(DOne, DNeg(DFromDecimal(
                                     df["test_pass_rate"], 100))),
                                 PassRateWeight))
              ELSE s2
    IN  DMax(DMin(s3, DOne), DZero)

\* score > threshold as the code evaluates it; units is the threshold in the
\* unit of the score.  The double differs from the exact sum by less than
\* 1e-15 and exact sums are whole units, so the doubles decide only when the
\* exact sum is the threshold itself.
ScoreExceeds(df, score, units, threshold) ==
    IF score # units
    THEN score > units
    ELSE DCmp(RuleBasedDouble(df), threshold) = 1

\* the result of the rule-based branch
RuleBasedResult(df) ==
    LET score == RuleBasedScore(df)
    IN  [is_anomaly |-> ScoreExceeds(df, score, 40000, AnomalyThreshold),
         severity |-> IF ScoreExceeds(df, score, 75000, HighThreshold)
                      THEN "HIGH"
                      ELSE IF ScoreExceeds(df, score, 50000, MediumThreshold)
                      THEN "MEDIUM"
                      ELSE "LOW",
         score |-> score]

\* slip: no try/except around the classifier
AnomalyDetectPropagates(self_model, features, clf) ==
    IF self_model # None /\ clf.raises
    THEN [raised |-> "Exception", model |-> self_model, result |-> None]
    ELSE IF self_model # None
    THEN [raised |-> "none", model |-> self_model,
          result |-> Some(ModelBackedResult(clf.proba))]
    ELSE [raised |-> "none", model |-> self_model,
          result |-> Some(RuleBasedResult(features))]

\* slip: a failing classifier is dropped for good (self.model = None in the
\* except branch)
AnomalyDetectDropsModel(self_model, features, clf) ==
    IF self_model # None /\ ~ clf.raises
    THEN [raised |-> "none", model |-> self_model,
          result |-> Some(ModelBackedResult(clf.proba))]
    ELSE [raised |-> "none", model |-> None,
          result |-> Some(RuleBasedResult(features))]

\* detect(features) for a dict or one-row DataFrame (both normalise to the same
\* df): the exception raised, self.model afterwards and the returned dict.
\* An exception of the classifier is swallowed and the rules take over.
AnomalyDetect(self_model, features, clf) ==
    IF self_model # None /\ ~ clf.raises
    THEN [raised |-> "none", model |-> self_model,
          result |-> Some(ModelBackedResult(clf.proba))]
    ELSE [raised |-> "none", model |-> self_model,
          result |-> Some(RuleBasedResult(features))]

(***************************************************************************)
(* Decision fusion (serving/model_server.py, predict_comprehensive)        *)
(***************************************************************************)
\* slip: the HIGH rule as an elif of the MEDIUM/HIGH rule
FinalRecommendationFirstMatch(quality_result, anomaly_result) ==
    IF anomaly_result.is_anomaly
       /\ anomaly_result.severity \in {"MEDIUM", "HIGH"}
    THEN "MANUAL_APPROVAL"
    ELSE IF anomaly_result.is_anomaly /\ anomaly_result.severity = "HIGH"
    THEN "BLOCK_DEPLOYMENT"
    ELSE quality_result.recommendation

\* the combined decision of predict_comprehensive
FinalRecommendation(quality_result, anomaly_result) ==
    LET base == quality_result.recommendation
        r1 == IF anomaly_result.is_anomaly
                 /\ anomaly_result.severity \in {"MEDIUM", "HIGH"}
              THEN "MANUAL_APPROVAL" ELSE base
    IN  IF anomaly_result.is_anomaly /\ anomaly_result.severity = "HIGH"
        THEN "BLOCK_DEPLOYMENT" ELSE r1

Fuse(quality_result, anomaly_result) ==
    [final_recommendation |-> FinalRecommendation(quality_result, anomaly_result),
     confidence |-> quality_result.success_probability]

(***************************************************************************)
(* State                                                                   *)
(***************************************************************************)
VARIABLES
    q_model,            \* QualityPredictor.model
    q_feature_columns,  \* QualityPredictor.feature_columns
    a_model,            \* AnomalyDetector.model
    quality_pkl,        \* models/quality_predictor.pkl: None, or the dumped dict
    anomaly_pkl,        \* models/anomaly_detector.pkl: None, or the dumped model
    op,                 \* the call in progress ("idle": it has returned)
    features,           \* its input
    anomaly_clf,        \* what the anomaly classifier did in it
    raised,             \* the exception that left the core call ("none": none)
    X,                  \* the feature row predict handed to the classifier
    quality_result,     \* the dict predict returned
    anomaly_result,     \* the dict detect returned
    final               \* final_recommendation and confidence of the fused answer

vars == << q_model, q_feature_columns, a_model, quality_pkl, anomaly_pkl, op,
           features, anomaly_clf, raised, X, quality_result, anomaly_result,
           final >>

objects == << q_model, q_feature_columns, a_model >>
files == << quality_pkl, anomaly_pkl >>

\* QualityPredictor() and AnomalyDetector(); the anomaly artifact is produced
\* outside this repository, so it is there or not from the start
Init ==
    /\ q_model = None
    /\ q_feature_columns = None
    /\ a_model = None
    /\ quality_pkl = None
    /\ anomaly_pkl \in {None, Some("classifier")}
    /\ op = "init"
    /\ features = None
    /\ anomaly_clf = NotInvoked
    /\ raised = "none"
    /\ X = None
    /\ quality_result = None
    /\ anomaly_result = None
    /\ final = None

\* calls are made one at a time: one returns before the next starts
Ready == op \in {"init", "idle"}

\* an operation that evaluates nothing
NoEvaluation(name, exc) ==
    /\ Ready
    /\ op' = name
    /\ features' = None
    /\ anomaly_clf' = NotInvoked
    /\ raised' = exc
    /\ X' = None
    /\ quality_result' = None
    /\ anomaly_result' = None
    /\ final' = None

\* the columns a training set may have, each shown by one of its rows:
\* all of them, code_coverage missing, lines_of_code missing
TrainingFrames ==
    { SampleDeployment,
      MkRecord(Some(95), None, Some(1), Some(35), Some(2500), Some(150), None),
      MkRecord(Some(95), Some(85), Some(1), Some(35), None, Some(150), None) }

\* how far the library calls of train get: train_test_split raises, fit
\* raises, a call of the evaluation raises, or all return
TrainSteps == {"split", "fit", "evaluate", "return"}

\* QualityPredictor.train(df): prepare_features sets the feature list, the
\* classifier is assigned to self.model after the split and before it is
\* fitted, and an exception leaves what was assigned until then
Train(df, step) ==
    LET pf == PrepareFeatures(q_feature_columns, df)
    IN  /\ Ready
        /\ q_feature_columns' = pf.feature_columns
        /\ q_model' = IF pf.raised # "none" \/ step = "split" THEN q_model
                      ELSE IF step = "fit" THEN Some(Unfitted)
                      ELSE Some(Fitted)
        /\ NoEvaluation("train", IF pf.raised # "none" THEN pf.raised
                                  ELSE IF step = "return" THEN "none"
                                  ELSE "ValueError")
        /\ UNCHANGED << a_model, files >>

\* QualityPredictor.prepare_features(df) called on the object
PrepareFeaturesCall(df) ==
    LET pf == PrepareFeatures(q_feature_columns, df)
    IN  /\ Ready
        /\ q_feature_columns' = pf.feature_columns
        /\ op' = "prepare_features"
        /\ features' = Some(df)
        /\ anomaly_clf' = NotInvoked
        /\ raised' = pf.raised
        /\ X' = None
        /\ quality_result' = None
        /\ anomaly_result' = None
        /\ final' = None
        /\ UNCHANGED << q_model, a_model, files >>

\* a path argument: its directory part (os.path.dirname, "" when the path is
\* a bare file name, then relative to the working directory models/) and the
\* file it names
ArtifactPath == [dirname |-> "models", file |-> "artifact"]
BarePath == [dirname |-> "", file |-> "artifact"]
MissingPath == [dirname |-> "models", file |-> "missing"]

\* the paths save_model is called with name the artifact
SavePaths == {ArtifactPath, BarePath}
LoadPaths == {ArtifactPath, BarePath, MissingPath}
\* AnomalyDetector.load_model resolves a relative path against the package
\* directory: the path of the artifact, or one of no file
AnomalyLoadPaths == {ArtifactPath, MissingPath}

\* the content of the file a path names (None: there is no such file)
FileAt(path, pkl) == IF path.file = "artifact" THEN pkl ELSE None

\* QualityPredictor.save_model(path): os.makedirs of an empty directory part
\* raises before anything is written
SaveModel(path) ==
    /\ Ready
    /\ IF path.dirname = ""
       THEN /\ NoEvaluation("save_model", "FileNotFoundError")
            /\ UNCHANGED quality_pkl
       ELSE /\ quality_pkl' = Some([model |-> q_model,
                                    feature_columns |-> q_feature_columns])
            /\ NoEvaluation("save_model", "none")
    /\ UNCHANGED << objects, anomaly_pkl >>

\* QualityPredictor.load_model(path)
LoadModel(path) ==
    /\ Ready
    /\ IF FileAt(path, quality_pkl) = None
       THEN /\ NoEvaluation("load_model", "FileNotFoundError")
            /\ UNCHANGED << q_model, q_feature_columns >>
       ELSE /\ q_model' = FileAt(path, quality_pkl)[1].model
            /\ q_feature_columns' = FileAt(path, quality_pkl)[1].feature_columns
            /\ NoEvaluation("load_model", "none")
    /\ UNCHANGED << a_model, files >>

\* AnomalyDetector.load_model(path): the model of the file if it exists,
\* else None
LoadAnomalyModel(path) ==
    /\ Ready
    /\ a_model' = FileAt(path, anomaly_pkl)
    /\ NoEvaluation("load_anomaly_model", "none")
    /\ UNCHANGED << q_model, q_feature_columns, files >>

\* the anomaly classifier is invoked only when a model is loaded
ClfChoices(self_model) ==
    IF self_model = None THEN {NotInvoked} ELSE AnomalyClfOutputs

\* the quality classifier is invoked only when predict gets as far as it
QualityClfChoices(data, is_dict) ==
    IF QualityPredict(q_model, q_feature_columns, data, is_dict, NoAnswer).raised
          = "none"
    THEN QualityClfOutputs ELSE {NoAnswer}

\* one-row DataFrames a caller of the library may pass: raw rows, and rows that
\* already carry the derived columns
Frames ==
    LET raw == { MkRecord(Some(t), Some(85), Some(1), Some(35), Some(2500),
                          Some(150), None) : t \in TprValues }
    IN  raw \cup { WithDerived(df) : df \in raw }

\* quality_predictor.predict(data) of /predict/quality (a dict), or
\* predict(frame) called on the library
Predict(data, is_dict, clf) ==
    LET r == QualityPredict(q_model, q_feature_columns, data, is_dict, clf)
    IN  /\ Ready
        /\ q_model' = r.model
        /\ q_feature_columns' = r.feature_columns
        /\ op' = "predict"
        /\ features' = Some(data)
        /\ anomaly_clf' = NotInvoked
        /\ raised' = r.raised
        /\ X' = r.X
        /\ quality_result' = r.result
        /\ anomaly_result' = None
        /\ final' = None
        /\ UNCHANGED << a_model, files >>

\* anomaly_detector.detect(data) of /predict/anomaly
Detect(data, clf) ==
    /\ Ready
    /\ \E r \in {AnomalyDetect(a_model, data, clf)} :
         /\ a_model' = r.model
         /\ raised' = r.raised
         /\ anomaly_result' = r.result
    /\ op' = "detect"
    /\ features' = Some(data)
    /\ anomaly_clf' = clf
    /\ X' = None
    /\ quality_result' = None
    /\ final' = None
    /\ UNCHANGED << q_model, q_feature_columns, files >>

\* /predict/comprehensive: predict, then detect, then the combined decision;
\* an exception of predict ends the request before detect runs
PredictComprehensive(data, qclf, aclf) ==
    LET q == QualityPredict(q_model, q_feature_columns, data, TRUE, qclf)
    IN  /\ Ready
        /\ q_model' = q.model
        /\ q_feature_columns' = q.feature_columns
        /\ op' = "predict_comprehensive"
        /\ features' = Some(data)
        /\ X' = q.X
        /\ quality_result' = q.result
        /\ IF q.raised # "none"
           THEN /\ anomaly_clf' = NotInvoked
                /\ raised' = q.raised
                /\ anomaly_result' = None
                /\ final' = None
                /\ UNCHANGED a_model
           ELSE \E a \in {AnomalyDetect(a_model, data, aclf)} :
                    /\ a_model' = a.model
                    /\ anomaly_clf' = aclf
                    /\ raised' = a.raised
                    /\ anomaly_result' = a.result
                    /\ final' = IF a.raised = "none"
                                THEN Some(Fuse(q.result[1], a.result[1]))
                                ELSE None
        /\ UNCHANGED files

\* the call returns: its values do not outlive it
Return ==
    /\ ~ Ready
    /\ op' = "idle"
    /\ features' = None
    /\ anomaly_clf' = NotInvoked
    /\ raised' = "none"
    /\ X' = None
    /\ quality_result' = None
    /\ anomaly_result' = None
    /\ final' = None
    /\ UNCHANGED << objects, files >>

\* POST /predict/quality with any metric record
PredictQuality ==
    /\ Ready
    /\ \E data \in Records : \E clf \in QualityClfChoices(data, TRUE) :
         Predict(data, TRUE, clf)

\* predict(frame) with any of the frames
PredictFrame ==
    /\ Ready
    /\ \E data \in Frames : \E clf \in QualityClfChoices(data, FALSE) :
         Predict(data, FALSE, clf)

\* POST /predict/anomaly with any metric record
PredictAnomaly ==
    /\ Ready
    /\ \E data \in Records : \E clf \in ClfChoices(a_model) : Detect(data, clf)

\* POST /predict/comprehensive with any metric record
Comprehensive ==
    /\ Ready
    /\ \E data \in Records : \E qclf \in QualityClfChoices(data, TRUE) :
         \E aclf \in (IF QualityClfChoices(data, TRUE) = {NoAnswer}
                      THEN {NotInvoked} ELSE ClfChoices(a_model)) :
            PredictComprehensive(data, qclf, aclf)

\* train(df) with any of the training sets, the library doing as it may
TrainModel ==
    /\ Ready
    /\ \E df \in TrainingFrames : \E step \in TrainSteps : Train(df, step)

\* prepare_features(df) with a frame or a training set
PrepareFeaturesDirect ==
    /\ Ready
    /\ \E df \in Frames \cup TrainingFrames : PrepareFeaturesCall(df)

Next ==
    \/ TrainModel
    \/ PrepareFeaturesDirect
    \/ \E path \in SavePaths : SaveModel(path)
    \/ \E path \in LoadPaths : LoadModel(path)
    \/ \E path \in AnomalyLoadPaths : LoadAnomalyModel(path)
    \/ PredictQuality
    \/ PredictFrame
    \/ PredictAnomaly
    \/ Comprehensive
    \/ Return

Spec == Init /\ [][Next]_vars

(***************************************************************************)
(* Properties                                                              *)
(***************************************************************************)
Rank(tier) ==
    CASE tier = "AUTO_DEPLOY" -> 0
      [] tier = "MANUAL_APPROVAL" -> 1
      [] tier = "BLOCK_DEPLOYMENT" -> 2

Fused == final # None
QR == quality_result[1]
AR == anomaly_result[1]

\* detect ran in the call in progress
DetectRan == op = "detect" \/ (op = "predict_comprehensive" /\ quality_result # None)
\* ... and its answer came from the rules
RulePath == DetectRan /\ (a_model = None \/ anomaly_clf.raises)
\* predict ran in the call in progress
PredictRan == op \in {"predict", "predict_comprehensive"}

\* C1: the fused final_recommendation never ranks below the quality
\* recommendation in AUTO_DEPLOY < MANUAL_APPROVAL < BLOCK_DEPLOYMENT.
C1_FusionNeverLowers ==
    Fused => Rank(final[1].final_recommendation) >= Rank(QR.recommendation)

\* C2: an anomaly of severity HIGH makes the final recommendation
\* BLOCK_DEPLOYMENT whatever the quality recommendation, and confidence is
\* always the quality success probability.
C2_HighAnomalyBlocks ==
    Fused =>
        /\ (AR.is_anomaly /\ AR.severity = "HIGH"
                => final[1].final_recommendation = "BLOCK_DEPLOYMENT")
        /\ final[1].confidence = QR.success_probability

C2_Witness ==
    /\ Fused
    /\ AR.is_anomaly /\ AR.severity = "HIGH"
    /\ QR.recommendation = "AUTO_DEPLOY"
    /\ AR.score # QR.success_probability

\* C3: the recommendation is AUTO_DEPLOY iff p >= 0.85, MANUAL_APPROVAL iff
\* 0.70 <= p < 0.85 and BLOCK_DEPLOYMENT iff p < 0.70, the boundaries going to
\* the higher tier.
C3_TieringPartition ==
    quality_result # None =>
        LET p == QR.success_probability
            rec == QR.recommendation
        IN  /\ rec \in {"AUTO_DEPLOY", "MANUAL_APPROVAL", "BLOCK_DEPLOYMENT"}
            /\ (rec = "AUTO_DEPLOY") <=> (p >= 85000)
            /\ (rec = "MANUAL_APPROVAL") <=> (70000 <= p /\ p < 85000)
            /\ (rec = "BLOCK_DEPLOYMENT") <=> (p < 70000)

C3_Witness ==
    /\ quality_result # None
    /\ QR.success_probability = 70000
    /\ QR.recommendation = "MANUAL_APPROVAL"

\* C4: with no model in the QualityPredictor every predict, on any input, raises
\* the model-not-trained error (a ValueError in the code) and yields no result;
\* nor does a classifier that was never fitted yield one.
C4_UntrainedAlwaysFails ==
    /\ (PredictRan /\ q_model = None) =>
          /\ raised = "ValueError"
          /\ quality_result = None
          /\ X = None
          /\ final = None
    /\ (PredictRan /\ q_model # Some(Fitted)) =>
          /\ raised # "none"
          /\ quality_result = None
          /\ final = None

C4_Witness ==
    /\ op = "predict"
    /\ q_model = None
    /\ raised = "ValueError"
    /\ features[1] # SampleDeployment
    /\ ~ Has(features[1], "code_coverage")

\* C5: detect never raises; with no model, or with a model whose classifier
\* raised, it returns what the rule-based detector returns for the same input,
\* flagged and graded at 0.4 / 0.5 / 0.75 (by the score as computed, which the
\* returned score shows to the unit).
C5_DetectNeverFails ==
    DetectRan =>
        /\ raised = "none"
        /\ anomaly_result # None
        /\ RulePath =>
             /\ AR = AnomalyDetect(None, features[1], NotInvoked).result[1]
             /\ (AR.score > 40000) => AR.is_anomaly
             /\ AR.is_anomaly => (AR.score >= 40000)
             /\ (AR.score > 75000) => (AR.severity = "HIGH")
             /\ (AR.severity = "HIGH") => (AR.score >= 75000)
             /\ (AR.severity = "MEDIUM") =>
                    (50000 <= AR.score /\ AR.score <= 75000)
             /\ (AR.severity = "LOW") => (AR.score <= 50000)

C5_Witness ==
    /\ op = "detect"
    /\ a_model # None
    /\ anomaly_clf.raises
    /\ raised = "none"
    /\ AR.score = 77500
    /\ AR.severity = "HIGH"

\* C6 as stated: the sample deployment gets quality_score about 0.9225 and
\* risk_score about 2.15.
C6_SampleScoresAsStated ==
    (PredictRan /\ features = Some(SampleDeployment) /\ X # None) =>
        /\ X[1]["quality_score"] >= 9225 - 50 /\ X[1]["quality_score"] <= 9225 + 50
        /\ X[1]["risk_score"] >= 215 - 5 /\ X[1]["risk_score"] <= 215 + 5

\* C6 amended: the sample deployment gets quality_score 0.8525 and risk_score
\* 5.25.
C6_SampleScores ==
    (PredictRan /\ features = Some(SampleDeployment) /\ X # None) =>
        /\ X[1]["quality_score"] = 8525
        /\ X[1]["risk_score"] = 525

C6_Witness ==
    /\ op = "predict"
    /\ features = Some(SampleDeployment)
    /\ X # None
    /\ quality_result # None

\* the contribution of one field as the rules weigh it
Contribution(df, k) ==
    IF ~ Has(df, k) THEN 0
    ELSE IF k = "security_vulnerabilities" THEN 6000 * Min(df[k], 10)
    ELSE IF k = "risk_score" THEN 3 * Min(df[k], 10000)
    ELSE 100 * (100 - df[k])

\* the same contribution as a double
ContributionDouble(df, k) ==
    IF ~ Has(df, k) THEN DZero
    ELSE IF k = "security_vulnerabilities"
    THEN DMul(DMin(DDiv(DFromInt(df[k]), 10), DOne), VulnWeight)
    ELSE IF k = "risk_score"
    THEN DMul(DMin(DDiv(DFromDecimal(df[k], 100), 100), DOne), RiskWeight)
    ELSE DMul(DAdd(DOne, DNeg(DFromDecimal(df[k], 100))), PassRateWeight)

\* the clamped sum of the contributions as a double
ContributionSumDouble(df) ==
    DMax(DMin(DAdd(DAdd(ContributionDouble(df, "security_vulnerabilities"),
                        ContributionDouble(df, "risk_score")),
                   ContributionDouble(df, "test_pass_rate")),
              DOne),
         DZero)

\* C7: on the rule-based path any subset of the three fields is accepted, the
\* score is the clamped sum of the present fields' contributions, is_anomaly is
\* score > 0.4, severity is HIGH above 0.75, MEDIUM in (0.5, 0.75], else LOW.
\* The score is a double and is compared as one: the returned score shows it
\* to the unit, and where that equals a threshold the double sum decides
\* (0.54 + 0.165 + 0.045 is 0.7500000000000001, above 0.75).
C7_FallbackPresentFieldsOnly ==
    RulePath =>
        LET df == features[1]
            sum == Contribution(df, "security_vulnerabilities")
                   + Contribution(df, "risk_score")
                   + Contribution(df, "test_pass_rate")
            score == IF sum < 0 THEN 0 ELSE IF sum > 100000 THEN 100000 ELSE sum
            Above(units, threshold) ==
                IF score # units THEN score > units
                ELSE DCmp(ContributionSumDouble(df), threshold) = 1
        IN  /\ raised = "none"
            /\ anomaly_result # None
            /\ AR.score = score
            /\ AR.is_anomaly = Above(40000, AnomalyThreshold)
            /\ AR.severity = IF Above(75000, HighThreshold) THEN "HIGH"
                             ELSE IF Above(50000, MediumThreshold) THEN "MEDIUM"
                             ELSE "LOW"

\* {test_pass_rate: 0.9} alone: score 0.01, no anomaly, LOW
C7_Witness ==
    /\ op = "detect"
    /\ a_model = None
    /\ DOMAIN features[1] = {"test_pass_rate"}
    /\ features[1]["test_pass_rate"] = 90
    /\ AR = [is_anomaly |-> FALSE, severity |-> "LOW", score |-> 1000]

\* the values one field may take
FieldValues(k) ==
    IF k = "security_vulnerabilities" THEN VulnValues
    ELSE IF k = "risk_score" THEN RiskValues
    ELSE TprValues

\* v puts more of field k's risk quantity into the input than df has
Riskier(df, k, v) ==
    IF k = "test_pass_rate" THEN 100 - v >= 100 - df[k] ELSE v >= df[k]

\* C8: raising security_vulnerabilities, risk_score or 1 - test_pass_rate alone
\* never lowers the rule-based score.
C8_FallbackMonotone ==
    RulePath =>
        \A k \in {"security_vulnerabilities", "risk_score", "test_pass_rate"} :
            Has(features[1], k) =>
                \A v \in FieldValues(k) :
                    Riskier(features[1], k, v) =>
                        RuleBasedScore([features[1] EXCEPT ![k] = v]) >= AR.score

C8_Witness ==
    /\ op = "detect"
    /\ RulePath
    /\ Has(features[1], "test_pass_rate")
    /\ features[1]["test_pass_rate"] = 90
    /\ RuleBasedScore([features[1] EXCEPT !["test_pass_rate"] = 70]) > AR.score

\* C9: no evaluation call changes QualityPredictor.model,
\* QualityPredictor.feature_columns or AnomalyDetector.model.
C9_EvaluationKeepsModels ==
    [][ op' \in {"predict", "detect", "predict_comprehensive"}
            => UNCHANGED << q_model, q_feature_columns, a_model >> ]_vars

C9_Witness ==
    /\ op = "predict_comprehensive"
    /\ quality_pkl # None
    /\ q_model = quality_pkl[1].model
    /\ q_model # None
    /\ a_model # None
    /\ anomaly_clf.raises
    /\ Fused

\* C10: a severity of MEDIUM or HIGH comes only with is_anomaly, on both paths,
\* so the final recommendation is AUTO_DEPLOY only when the quality
\* recommendation is AUTO_DEPLOY and the severity is LOW.
C10_SeverityImpliesAnomaly ==
    /\ anomaly_result # None =>
         (AR.severity \in {"MEDIUM", "HIGH"} => AR.is_anomaly)
    /\ (Fused /\ final[1].final_recommendation = "AUTO_DEPLOY") =>
         (QR.recommendation = "AUTO_DEPLOY" /\ AR.severity = "LOW")

\* a flagged anomaly of severity LOW that leaves AUTO_DEPLOY in place
C10_Witness ==
    /\ Fused
    /\ a_model # None /\ ~ anomaly_clf.raises
    /\ AR.is_anomaly /\ AR.severity = "LOW"
    /\ final[1].final_recommendation = "AUTO_DEPLOY"

====
